---- MODULE Spec2Model ----
(***************************************************************************)
(* Camera controller (src/src/camera.rs) and render orchestrator           *)
(* (src/src/engine.rs) of rust-obj-viewer.                                 *)
(*                                                                         *)
(* Numbers.  An f32 is a record [c, v]: c = "fin" with v an integer of the *)
(* lattice, c = "inf" with v the sign, or c = "nan".  Finite results       *)
(* beyond MaxFinite overflow to an infinity, as f32 arithmetic does, and   *)
(* inf * 0, inf - inf, 0 / 0 are NaN.  Angles are counted in quarter turns *)
(* (one unit is pi/2 rad), where sine and cosine are -1, 0 or 1; lengths   *)
(* and seconds are whole units.  The lattice leaves out f32 rounding       *)
(* (cos(FRAC_PI_2) is -4.4e-8 in f32 and 0 here).                          *)
(***************************************************************************)
EXTENDS Integers, Sequences, FiniteSets, TLC

VARIABLES controller, camera, frames, held, last, window_size, surface_config,
          projection, depth_texture, calls

vars == <<controller, camera, frames, held, last, window_size, surface_config,
          projection, depth_texture, calls>>

cameraVars == <<controller, camera, frames, held>>
engineVars == <<window_size, surface_config, projection, depth_texture, calls>>

(* ---------------------------------------------------------------- bounds *)
\* largest finite magnitude of the lattice (the stand-in of f32::MAX)
MaxFinite == 100000
\* number of update_camera calls of one behaviour
MaxFrames == 2
\* number of keys the keyboard reports as down at once
MaxHeld == 2

(* ------------------------------------------------------------ f32 values *)
Fin(n) == [c |-> "fin", v |-> n]
PInf == [c |-> "inf", v |-> 1]
NInf == [c |-> "inf", v |-> -1]
NaN == [c |-> "nan", v |-> 0]

IsFin(a) == a.c = "fin"
IsNaN(a) == a.c = "nan"

Sgn(n) == IF n > 0 THEN 1 ELSE IF n < 0 THEN -1 ELSE 0
Abs(n) == IF n < 0 THEN -n ELSE n

\* rounding of an exact result into the f32 range: overflow gives an infinity
Round(n) == IF Abs(n) > MaxFinite THEN [c |-> "inf", v |-> Sgn(n)] ELSE Fin(n)

FNeg(a) == IF IsNaN(a) THEN NaN ELSE [a EXCEPT !.v = -a.v]

FAdd(a, b) ==
    IF IsNaN(a) \/ IsNaN(b) THEN NaN
    ELSE IF a.c = "inf" /\ b.c = "inf" THEN (IF a.v = b.v THEN a ELSE NaN)
    ELSE IF a.c = "inf" THEN a
    ELSE IF b.c = "inf" THEN b
    ELSE Round(a.v + b.v)

FSub(a, b) == FAdd(a, FNeg(b))

FMul(a, b) ==
    IF IsNaN(a) \/ IsNaN(b) THEN NaN
    ELSE IF a.c = "inf" \/ b.c = "inf"
         THEN (IF a.v = 0 \/ b.v = 0 THEN NaN
               ELSE [c |-> "inf", v |-> Sgn(a.v) * Sgn(b.v)])
    ELSE Round(a.v * b.v)

\* truncating quotient of the lattice (exact whenever b divides a)
Quot(m, n) == Sgn(m) * Sgn(n) * (Abs(m) \div Abs(n))

FDiv(a, b) ==
    IF IsNaN(a) \/ IsNaN(b) THEN NaN
    ELSE IF a.c = "inf" THEN (IF b.c = "inf" THEN NaN
                              ELSE [c |-> "inf", v |-> a.v * (IF b.v < 0 THEN -1 ELSE 1)])
    ELSE IF b.c = "inf" THEN Fin(0)
    ELSE IF b.v = 0 THEN (IF a.v = 0 THEN NaN ELSE [c |-> "inf", v |-> Sgn(a.v)])
    ELSE Round(Quot(a.v, b.v))

\* position of a non-NaN value on the extended number line
Key(a) == IF a.c = "inf" THEN a.v * (MaxFinite + 1) ELSE a.v

\* IEEE comparisons: every comparison with a NaN is false
FLt(a, b) == ~IsNaN(a) /\ ~IsNaN(b) /\ Key(a) < Key(b)
FGt(a, b) == FLt(b, a)
FLe(a, b) == ~IsNaN(a) /\ ~IsNaN(b) /\ Key(a) <= Key(b)

ISqrt(n) == CHOOSE r \in 0..n : r * r <= n /\ n < (r + 1) * (r + 1)

FSqrt(a) ==
    IF IsNaN(a) THEN NaN
    ELSE IF a.c = "inf" THEN (IF a.v > 0 THEN PInf ELSE NaN)
    ELSE IF a.v < 0 THEN NaN
    ELSE Fin(ISqrt(a.v))

\* f32::sin_cos at whole quarter turns; NaN for an infinite or NaN angle
FSin(a) ==
    IF ~IsFin(a) THEN NaN
    ELSE LET q == a.v % 4 IN Fin(IF q = 1 THEN 1 ELSE IF q = 3 THEN -1 ELSE 0)

FCos(a) ==
    IF ~IsFin(a) THEN NaN
    ELSE LET q == a.v % 4 IN Fin(IF q = 0 THEN 1 ELSE IF q = 2 THEN -1 ELSE 0)

\* `x as f32` of an f64: a finite f64 beyond the f32 range becomes an infinity
AsF32(x) == IF IsFin(x) THEN Round(x.v) ELSE x

\* cgmath::Deg -> cgmath::Rad, in quarter turns
DegToRad(d) == Round(Quot(d, 90))

\* std::f32::consts::FRAC_PI_2, in quarter turns
FRAC_PI_2 == 1

(* --------------------------------------------------------------- vectors *)
Vec(x, y, z) == [x |-> x, y |-> y, z |-> z]
VAdd(p, w) == Vec(FAdd(p.x, w.x), FAdd(p.y, w.y), FAdd(p.z, w.z))
VScale(w, s) == Vec(FMul(w.x, s), FMul(w.y, s), FMul(w.z, s))
Magnitude(w) ==
    FSqrt(FAdd(FAdd(FMul(w.x, w.x), FMul(w.y, w.y)), FMul(w.z, w.z)))
\* InnerSpace::normalize: the vector times 1 / magnitude
Normalize(w) == VScale(w, FDiv(Fin(1), Magnitude(w)))

(* ------------------------------------------------------------ CameraData *)
\* CameraData::new: position, yaw and pitch are stored as given (no clamp)
CameraDataNew(position, yaw, pitch) ==
    [position |-> position, yaw |-> yaw, pitch |-> pitch]

(* ------------------------------------------------------ CameraController *)
CameraControllerNew(speed, sensitivity) ==
    [amount_left |-> Fin(0), amount_right |-> Fin(0),
     amount_forward |-> Fin(0), amount_backward |-> Fin(0),
     amount_up |-> Fin(0), amount_down |-> Fin(0),
     rotate_horizontal |-> Fin(0), rotate_vertical |-> Fin(0),
     scroll |-> Fin(0), speed |-> speed, sensitivity |-> sensitivity]

\* mutant: the Left arrow is handled by the arm of D / Right
KeyFieldLeftAsRight(key) ==
    CASE key \in {"W", "Up"} -> "amount_forward"
      [] key \in {"S", "Down"} -> "amount_backward"
      [] key \in {"A"} -> "amount_left"
      [] key \in {"D", "Right", "Left"} -> "amount_right"
      [] key = "Space" -> "amount_up"
      [] key = "LShift" -> "amount_down"
      [] OTHER -> "none"

\* the directional accumulator a key is mapped to, "none" for the `_` arm
KeyField(key) ==
    CASE key \in {"W", "Up"} -> "amount_forward"
      [] key \in {"S", "Down"} -> "amount_backward"
      [] key \in {"A", "Left"} -> "amount_left"
      [] key \in {"D", "Right"} -> "amount_right"
      [] key = "Space" -> "amount_up"
      [] key = "LShift" -> "amount_down"
      [] OTHER -> "none"

KeyAmount(state) == IF state = "Pressed" THEN Fin(1) ELSE Fin(0)

\* mutant: an accumulator counts the keys held for its direction: a press adds
\* one and a release takes one away
KeyboardControllerCounted(c, key, state) ==
    IF KeyField(key) = "none" THEN c
    ELSE [c EXCEPT ![KeyField(key)] =
              IF state = "Pressed" THEN FAdd(@, Fin(1)) ELSE FSub(@, Fin(1))]

\* the controller after process_keyboard(key, state)
KeyboardController(c, key, state) ==
    IF KeyField(key) = "none" THEN c
    ELSE [c EXCEPT ![KeyField(key)] = KeyAmount(state)]

\* the value process_keyboard(key, state) returns
KeyboardReturn(key, state) == KeyField(key) # "none"

\* the controller after process_mouse(mouse_dx, mouse_dy), both f64
MouseController(c, mouse_dx, mouse_dy) ==
    [c EXCEPT !.rotate_horizontal = AsF32(mouse_dx),
              !.rotate_vertical = AsF32(mouse_dy)]

\* MouseScrollDelta::LineDelta(f32, f32) and ::PixelDelta(PhysicalPosition<f64>)
LineDelta(x, y) == [kind |-> "LineDelta", x |-> x, y |-> y]
PixelDelta(x, y) == [kind |-> "PixelDelta", x |-> x, y |-> y]

\* the scalar process_scroll stores for a delta
ScrollValue(delta) ==
    FNeg(IF delta.kind = "LineDelta" THEN FMul(delta.y, Fin(100))
         ELSE AsF32(delta.y))

\* mutant: the new scroll is added to the unconsumed one
ScrollControllerSummed(c, delta) ==
    [c EXCEPT !.scroll = FAdd(c.scroll, ScrollValue(delta))]

\* the controller after process_scroll(delta)
ScrollController(c, delta) == [c EXCEPT !.scroll = ScrollValue(delta)]

\* Duration::as_secs_f32 of a duration of whole seconds
AsSecsF32(dt) == Round(dt)

\* mutant: the forward vector with sine and cosine exchanged
ForwardSwapped(yaw) == Normalize(Vec(FSin(yaw), Fin(0), FCos(yaw)))

\* forward / right basis of update_camera, from the yaw alone
Forward(yaw) == Normalize(Vec(FCos(yaw), Fin(0), FSin(yaw)))
Right(yaw) == Normalize(Vec(FNeg(FSin(yaw)), Fin(0), FCos(yaw)))
\* the look direction of the scroll translation, from yaw and pitch
Scrollward(yaw, pitch) ==
    Normalize(Vec(FMul(FCos(pitch), FCos(yaw)), FSin(pitch),
                  FMul(FCos(pitch), FSin(yaw))))

\* the position after the four translations of update_camera, all computed
\* from the yaw and pitch handed in
Translate(c, position, yaw, pitch, dt) ==
    LET p1 == VAdd(position,
                   VScale(VScale(VScale(Forward(yaw),
                       FSub(c.amount_forward, c.amount_backward)), c.speed), dt))
        p2 == VAdd(p1,
                   VScale(VScale(VScale(Right(yaw),
                       FSub(c.amount_right, c.amount_left)), c.speed), dt))
        p3 == VAdd(p2,
                   VScale(VScale(VScale(VScale(Scrollward(yaw, pitch),
                       c.scroll), c.speed), c.sensitivity), dt))
    IN [p3 EXCEPT !.y = FAdd(p3.y,
            FMul(FMul(FSub(c.amount_up, c.amount_down), c.speed), dt))]

\* mutant: the pending rotation is applied whole, not scaled by dt
RotatePitchUnscaled(c, pitch, dt) ==
    FAdd(pitch, FMul(FNeg(c.rotate_vertical), c.sensitivity))

\* yaw / pitch after the rotation step, before the clamp
RotateYaw(c, yaw, dt) ==
    FAdd(yaw, FMul(FMul(c.rotate_horizontal, c.sensitivity), dt))
RotatePitch(c, pitch, dt) ==
    FAdd(pitch, FMul(FMul(FNeg(c.rotate_vertical), c.sensitivity), dt))

\* mutant: the upper branch of the clamp is missing
ClampPitchLowOnly(pitch) ==
    IF FLt(pitch, FNeg(Fin(FRAC_PI_2))) THEN FNeg(Fin(FRAC_PI_2)) ELSE pitch

\* mutant: the lower branch of the clamp is missing
ClampPitchHighOnly(pitch) ==
    IF FGt(pitch, Fin(FRAC_PI_2)) THEN Fin(FRAC_PI_2) ELSE pitch

\* "Keep the camera's angle from going too high/low."
ClampPitch(pitch) ==
    IF FLt(pitch, FNeg(Fin(FRAC_PI_2))) THEN FNeg(Fin(FRAC_PI_2))
    ELSE IF FGt(pitch, Fin(FRAC_PI_2)) THEN Fin(FRAC_PI_2)
    ELSE pitch

\* mutant: the rotation is applied first and the translations use the new angles
UpdatedCameraRotateFirst(c, cam, dt) ==
    [position |-> Translate(c, cam.position,
                            RotateYaw(c, cam.yaw, AsSecsF32(dt)),
                            ClampPitch(RotatePitch(c, cam.pitch, AsSecsF32(dt))),
                            AsSecsF32(dt)),
     yaw |-> RotateYaw(c, cam.yaw, AsSecsF32(dt)),
     pitch |-> ClampPitch(RotatePitch(c, cam.pitch, AsSecsF32(dt)))]

\* the camera after update_camera(camera, dt): translate, then rotate, then clamp
UpdatedCamera(c, cam, dt) ==
    [position |-> Translate(c, cam.position, cam.yaw, cam.pitch, AsSecsF32(dt)),
     yaw |-> RotateYaw(c, cam.yaw, AsSecsF32(dt)),
     pitch |-> ClampPitch(RotatePitch(c, cam.pitch, AsSecsF32(dt)))]

\* mutant: the vertical rotation delta is not zeroed
UpdatedControllerKeepsVertical(c) ==
    [c EXCEPT !.scroll = Fin(0), !.rotate_horizontal = Fin(0)]

\* the controller after update_camera: scroll and both rotation deltas are zeroed
UpdatedController(c) ==
    [c EXCEPT !.scroll = Fin(0), !.rotate_horizontal = Fin(0),
              !.rotate_vertical = Fin(0)]

(* ------------------------------------------------------------ Projection *)
GCD(m, n) == CHOOSE g \in 1..(m + n + 1) :
    /\ (m + n = 0 => g = 1)
    /\ (m + n > 0 => /\ m % g = 0 /\ n % g = 0
                      /\ \A k \in (g + 1)..(m + n) : ~(m % k = 0 /\ n % k = 0))

\* `width as f32 / height as f32` as a reduced fraction n/d: d = 0 with n = 1
\* is +infinity (w > 0, h = 0) and with n = 0 is NaN (0 / 0)
Aspect(width, height) ==
    [n |-> width \div GCD(width, height), d |-> height \div GCD(width, height)]

ProjectionNew(width, height) == [aspect |-> Aspect(width, height)]
ProjectionResize(p, width, height) == [p EXCEPT !.aspect = Aspect(width, height)]

(* ---------------------------------------------------------------- Engine *)
PhysicalSize(width, height) == [width |-> width, height |-> height]

\* texture::Texture::create_depth_texture: a texture of the size in the config
CreateDepthTexture(config) == [width |-> config.width, height |-> config.height]

\* Camera::resize_projection(&new_size): hands the new size to Projection::resize
CameraResizeProjection(p, new_size) ==
    ProjectionResize(p, new_size.width, new_size.height)

\* a call the engine makes on the GPU API, with what it returned
Gpu(f, r) == [f |-> f, r |-> r]

\* mutant: the surface configuration is given the height as its width
ResizedConfigSquare(config, new_size) ==
    IF new_size.width > 0 /\ new_size.height > 0
    THEN [config EXCEPT !.width = new_size.height, !.height = new_size.height]
    ELSE config

\* surface_config after Engine::resize(new_size)
ResizedConfig(config, new_size) ==
    IF new_size.width > 0 /\ new_size.height > 0
    THEN [config EXCEPT !.width = new_size.width, !.height = new_size.height]
    ELSE config

\* mutant: window_size is assigned outside the guard on the new size
ResizedWindowSizeUnguarded(size, new_size) == new_size

\* window_size after Engine::resize(new_size)
ResizedWindowSize(size, new_size) ==
    IF new_size.width > 0 /\ new_size.height > 0 THEN new_size ELSE size

\* the GPU calls of Engine::resize(new_size)
ResizeCalls(new_size) ==
    (IF new_size.width > 0 /\ new_size.height > 0
     THEN <<Gpu("surface.configure", "unit")>> ELSE <<>>)
    \o <<Gpu("create_depth_texture", "unit")>>

\* the value Engine::get_size returns: a clone of window_size
GetSizeReturn(size) == size

\* the models Engine::new loads
NumModels == 1

\* the outcomes of Surface::get_current_texture: a texture or a SurfaceError
SurfaceErrors == {"Timeout", "Outdated", "Lost", "OutOfMemory"}
AcquireOutcomes == {"Ok"} \cup SurfaceErrors

DrawCalls(n) ==
    [i \in 1..(4 * n) |->
        Gpu(CASE i % 4 = 1 -> "set_vertex_buffer 0"
              [] i % 4 = 2 -> "set_vertex_buffer 1"
              [] i % 4 = 3 -> "set_index_buffer"
              [] OTHER -> "draw_indexed", "unit")]

\* a call that records into, or hands over, the command encoder `on`
GpuOn(f, on, r) == [f |-> f, r |-> r, on |-> on]

\* the label of the command encoder Engine::render creates
RenderEncoder == "Render Encoder"

\* the load operations of the render pass: the colour attachment is cleared
\* to (0.1, 0.2, 0.3, 1.0), here in tenths, and the depth attachment to 1.0
RenderPassOps ==
    [color |-> [load |-> "Clear", r |-> 1, g |-> 2, b |-> 3, a |-> 10],
     depth |-> [load |-> "Clear", value |-> Fin(1)]]

\* Camera::update_buffers and the light's update_buffers, handed the device
\* and the encoder: the uniform write is recorded into that encoder
UpdateBuffers(f, encoder) == <<GpuOn(f, encoder, "unit")>>

\* mutant: a failed acquisition reconfigures the surface and acquires again
RenderCallsRetry(outcome) ==
    IF outcome \in SurfaceErrors
    THEN <<Gpu("surface.get_current_texture", outcome),
           Gpu("surface.configure", "unit"),
           Gpu("surface.get_current_texture", outcome)>>
    ELSE <<Gpu("surface.get_current_texture", outcome),
           Gpu("create_command_encoder", "unit"),
           Gpu("queue.submit", "unit"), Gpu("output.present", "unit")>>

\* mutant: the uniform updates go into an encoder of their own, which is
\* submitted before the render pass is recorded
RenderCallsUniformsApart(outcome) ==
    IF outcome \in SurfaceErrors
    THEN <<Gpu("surface.get_current_texture", outcome)>>
    ELSE <<Gpu("surface.get_current_texture", outcome),
           Gpu("texture.create_view", "unit"),
           Gpu("create_command_encoder", "Uniform Encoder")>>
         \o UpdateBuffers("camera.update_buffers", "Uniform Encoder")
         \o UpdateBuffers("light.update_buffers", "Uniform Encoder")
         \o <<GpuOn("encoder.finish", "Uniform Encoder", "unit"),
              GpuOn("queue.submit", "Uniform Encoder", "unit"),
              Gpu("create_command_encoder", RenderEncoder),
              GpuOn("begin_render_pass", RenderEncoder, RenderPassOps),
              Gpu("set_pipeline", "unit"),
              Gpu("set_bind_group 0", "unit"),
              Gpu("set_bind_group 1", "unit")>>
         \o DrawCalls(NumModels)
         \o <<Gpu("end_render_pass", "unit"),
              GpuOn("encoder.finish", RenderEncoder, "unit"),
              GpuOn("queue.submit", RenderEncoder, "unit"),
              Gpu("output.present", "unit")>>

\* the GPU calls of Engine::render, in order, when get_current_texture returns
\* `outcome`: the `?` returns at once on an error
RenderCalls(outcome) ==
    IF outcome \in SurfaceErrors
    THEN <<Gpu("surface.get_current_texture", outcome)>>
    ELSE <<Gpu("surface.get_current_texture", outcome),
           Gpu("texture.create_view", "unit"),
           Gpu("create_command_encoder", RenderEncoder)>>
         \o UpdateBuffers("camera.update_buffers", RenderEncoder)
         \o UpdateBuffers("light.update_buffers", RenderEncoder)
         \o <<GpuOn("begin_render_pass", RenderEncoder, RenderPassOps),
              Gpu("set_pipeline", "unit"),
              Gpu("set_bind_group 0", "unit"),
              Gpu("set_bind_group 1", "unit")>>
         \o DrawCalls(NumModels)
         \o <<Gpu("end_render_pass", "unit"),
              GpuOn("encoder.finish", RenderEncoder, "unit"),
              GpuOn("queue.submit", RenderEncoder, "unit"),
              Gpu("output.present", "unit")>>

\* the fields of struct Engine, in the order of their declaration
EngineFields ==
    <<"instance", "adapter", "device", "surface", "surface_config", "queue",
      "render_pipeline", "window_size", "camera", "light", "models",
      "instance_buffer", "depth_texture">>

\* the order in which Engine::new acquires what the fields hold
Acquisition ==
    <<"window_size", "instance", "surface", "adapter", "device", "queue",
      "surface_config", "camera", "light", "render_pipeline", "models",
      "instance_buffer", "depth_texture">>

\* dropping the Engine: it has no Drop implementation, so its fields are
\* dropped one after the other in the order of their declaration
DropCalls == [i \in DOMAIN EngineFields |-> GpuOn("drop", EngineFields[i], "unit")]

\* the value Engine::render returns
RenderReturn(outcome) == IF outcome \in SurfaceErrors THEN outcome ELSE "Ok"

(* ------------------------------------------------------------ input sets *)
ElementState == {"Pressed", "Released"}
MappedKeys == {"W", "Up", "S", "Down", "A", "Left", "D", "Right", "Space", "LShift"}
\* two of the VirtualKeyCode variants that fall into the `_` arm
UnmappedKeys == {"Q", "Escape"}
Origin == Vec(Fin(0), Fin(0), Fin(0))
\* a finite f64 beyond the f32 range
Huge == Fin(MaxFinite * 10)

(* ------------------------------------------------------------ operations *)
\* `last` records the most recent call: its name, arguments and return value, and
\* the name of the call before it
Call(op, args, ret) == [op |-> op, args |-> args, ret |-> ret, prev |-> last.op]

\* the state Engine::new leaves for a window of the given inner size
EngineInit(size) ==
    /\ window_size = size
    /\ surface_config = [width |-> size.width, height |-> size.height]
    /\ projection = ProjectionNew(size.width, size.height)
    /\ depth_texture = CreateDepthTexture([width |-> size.width, height |-> size.height])
    /\ calls = <<>>

CameraInit(speeds, sensitivities, yawDegs, pitchDegs) ==
    /\ \E speed \in speeds, sensitivity \in sensitivities :
          controller = CameraControllerNew(speed, sensitivity)
    /\ \E yaw \in yawDegs, pitch \in pitchDegs :
          camera = CameraDataNew(Origin, DegToRad(yaw), DegToRad(pitch))
    /\ frames = 0
    /\ held = {}
    /\ last = [op |-> "new", args |-> <<>>, ret |-> "unit", prev |-> "none"]

\* `budget` bounds a behaviour: it holds at most `budget` update_camera calls
\* and the input events that precede them.  `held` is the keyboard's side of
\* the events: the keys that are down.  A key that is down may repeat its
\* press; only a key that is down is released.
ProcessKeyboard(keys, budget) ==
    \E key \in keys, state \in ElementState :
        /\ frames < budget
        /\ state = "Released" => key \in held
        /\ held' = IF state = "Pressed" THEN held \cup {key} ELSE held \ {key}
        /\ Cardinality(held') <= MaxHeld
        /\ controller' = KeyboardController(controller, key, state)
        /\ last' = Call("process_keyboard", <<key, state>>,
                        IF KeyboardReturn(key, state) THEN "true" ELSE "false")
        /\ UNCHANGED <<camera, frames, engineVars>>

ProcessMouse(deltas, budget) ==
    \E d \in deltas :
        /\ frames < budget
        /\ controller' = MouseController(controller, d[1], d[2])
        /\ last' = Call("process_mouse", d, "unit")
        /\ UNCHANGED <<camera, frames, held, engineVars>>

ProcessScroll(deltas, budget) ==
    \E delta \in deltas :
        /\ frames < budget
        /\ controller' = ScrollController(controller, delta)
        /\ last' = Call("process_scroll", <<delta>>, "unit")
        /\ UNCHANGED <<camera, frames, held, engineVars>>

UpdateCamera(dts, budget) ==
    \E dt \in dts :
        /\ frames < budget
        /\ camera' = UpdatedCamera(controller, camera, dt)
        /\ controller' = UpdatedController(controller)
        /\ frames' = frames + 1
        /\ last' = Call("update_camera", <<dt>>, "unit")
        /\ UNCHANGED <<held, engineVars>>

\* the Engine is owned until it is dropped; no method runs on it afterwards
Alive == last.op # "drop"

Resize(sizes) ==
    \E new_size \in sizes :
        /\ Alive
        /\ projection' = CameraResizeProjection(projection, new_size)
        /\ window_size' = ResizedWindowSize(window_size, new_size)
        /\ surface_config' = ResizedConfig(surface_config, new_size)
        /\ depth_texture' = CreateDepthTexture(surface_config')
        /\ calls' = ResizeCalls(new_size)
        /\ last' = Call("resize", <<new_size>>, "unit")
        /\ UNCHANGED cameraVars

Render ==
    \E outcome \in AcquireOutcomes :
        /\ Alive
        /\ calls' = RenderCalls(outcome)
        /\ last' = Call("render", <<>>, RenderReturn(outcome))
        /\ UNCHANGED <<cameraVars, window_size, surface_config, projection,
                       depth_texture>>

GetSize ==
    /\ Alive
    /\ last' = Call("get_size", <<>>, GetSizeReturn(window_size))
    /\ calls' = <<>>
    /\ UNCHANGED <<cameraVars, window_size, surface_config, projection,
                   depth_texture>>

Drop ==
    /\ Alive
    /\ calls' = DropCalls
    /\ last' = Call("drop", <<>>, "unit")
    /\ UNCHANGED <<cameraVars, window_size, surface_config, projection,
                   depth_texture>>

(* ------------------------------------------- specification: camera motion *)
SpecKeys == {"W", "Up", "Space"}
SpecMouse == {<<Fin(0), Fin(0)>>, <<Fin(1), Fin(0)>>, <<Fin(0), Fin(1)>>}
SpecScroll == {LineDelta(Fin(0), Fin(1))}
SpecDts == {0, 1}

Init ==
    /\ CameraInit({Fin(4)}, {Fin(1)}, {-90, 0}, {0})
    /\ EngineInit(PhysicalSize(4, 3))

Next ==
    \/ ProcessKeyboard(SpecKeys, MaxFrames)
    \/ ProcessMouse(SpecMouse, MaxFrames)
    \/ ProcessScroll(SpecScroll, MaxFrames)
    \/ UpdateCamera(SpecDts, MaxFrames)

Spec == Init /\ [][Next]_vars

(* ------------------------------------------- specification: input events *)
\* every mapped key, two unmapped ones, both scroll units with finite,
\* overflowing and non-finite values, and one frame
InputKeys == MappedKeys \cup UnmappedKeys
InputMouse == {<<Fin(1), Fin(-1)>>}
InputScroll == {LineDelta(Fin(0), Fin(1)), LineDelta(Fin(3), Fin(-2)),
                LineDelta(Fin(0), Fin(MaxFinite)), LineDelta(Fin(0), NaN),
                PixelDelta(Fin(0), Fin(3)), PixelDelta(Fin(1), Huge)}
InputDts == {1}

InitInput ==
    /\ CameraInit({Fin(4)}, {Fin(1)}, {0}, {0})
    /\ EngineInit(PhysicalSize(4, 3))

NextInput ==
    \/ ProcessKeyboard(InputKeys, 1)
    \/ ProcessMouse(InputMouse, 1)
    \/ ProcessScroll(InputScroll, 1)
    \/ UpdateCamera(InputDts, 1)

SpecInput == InitInput /\ [][NextInput]_vars

(* ------------------------------------------------- specification: pitch *)
\* cameras constructed inside, on and outside the pitch bounds; vertical deltas
\* that step, overshoot, overflow (f64 beyond f32; times sensitivity) or are NaN
PitchDegs == {-180, -90, 0, 90, 180}
PitchSensitivities == {Fin(1), Fin(2)}
PitchKeys == {"W"}
PitchMouse == {<<Fin(0), Fin(1)>>, <<Fin(0), Fin(-1)>>, <<Fin(1), Fin(3)>>,
               <<Fin(0), Huge>>, <<Fin(0), Fin(MaxFinite)>>, <<Fin(0), NaN>>}
PitchScroll == {PixelDelta(Fin(0), Fin(1))}
PitchDts == {0, 1, 2}

InitPitch ==
    /\ CameraInit({Fin(4)}, PitchSensitivities, {0}, PitchDegs)
    /\ EngineInit(PhysicalSize(4, 3))

NextPitch ==
    \/ ProcessKeyboard(PitchKeys, MaxFrames)
    \/ ProcessMouse(PitchMouse, MaxFrames)
    \/ ProcessScroll(PitchScroll, MaxFrames)
    \/ UpdateCamera(PitchDts, MaxFrames)

SpecPitch == InitPitch /\ [][NextPitch]_vars

(* ------------------------------------------------ specification: engine *)
\* window sides from 0 to MaxSide, so that zero widths and heights occur
MaxSide == 3
EngineSizes == {PhysicalSize(w, h) : w \in 0..MaxSide, h \in 0..MaxSide}

InitEngine ==
    /\ CameraInit({Fin(4)}, {Fin(1)}, {-90}, {0})
    /\ \E size \in {PhysicalSize(4, 3), PhysicalSize(2, 2)} : EngineInit(size)

NextEngine ==
    \/ Resize(EngineSizes)
    \/ Render
    \/ GetSize
    \/ Drop

SpecEngine == InitEngine /\ [][NextEngine]_vars

(* ------------------------------------------------------ claims: helpers *)
Amounts(c) == <<c.amount_left, c.amount_right, c.amount_forward,
                c.amount_backward, c.amount_up, c.amount_down>>
OnlyForward(c) ==
    Amounts(c) = <<Fin(0), Fin(0), Fin(1), Fin(0), Fin(0), Fin(0)>>
NothingPending(c) ==
    /\ c.rotate_horizontal = Fin(0) /\ c.rotate_vertical = Fin(0)
    /\ c.scroll = Fin(0)
AllFinite(c, cam) ==
    /\ \A f \in DOMAIN c : IsFin(c[f])
    /\ IsFin(cam.yaw) /\ IsFin(cam.pitch)
    /\ IsFin(cam.position.x) /\ IsFin(cam.position.y) /\ IsFin(cam.position.z)
\* the step taken is the call `op`
Did(op) == last'.op = op /\ vars' # vars
\* cosine and sine of whole quarter turns, as integers
CosQ(q) == IF q % 4 = 0 THEN 1 ELSE IF q % 4 = 2 THEN -1 ELSE 0
SinQ(q) == IF q % 4 = 1 THEN 1 ELSE IF q % 4 = 3 THEN -1 ELSE 0

(* -------------------------------------------------------------- claim C1 *)
\* C1: after every update_camera call, whatever keys, mouse deltas, scroll and
\* dt >= 0 preceded it, the pitch does not exceed +pi/2 and is not below -pi/2.
C1_PitchClamped ==
    [][Did("update_camera") =>
         /\ ~FGt(camera'.pitch, Fin(FRAC_PI_2))
         /\ ~FLt(camera'.pitch, FNeg(Fin(FRAC_PI_2)))]_vars

\* the pair (1, 3) over dt = 2 turns yaw to 2 and pushes every constructed
\* pitch below -pi/2: the update leaves it at the lower bound
C1_Witness ==
    /\ frames = 1 /\ last.op = "update_camera" /\ last.args = <<2>>
    /\ camera.yaw = Fin(2)
    /\ camera.pitch = FNeg(Fin(FRAC_PI_2))

(* -------------------------------------------------------------- claim C2 *)
\* C2 as claimed: in every reachable state, from construction with any pitch
\* onwards, the pitch lies strictly inside (-pi/2, pi/2).
C2_PitchInOpenInterval ==
    /\ FLt(FNeg(Fin(FRAC_PI_2)), camera.pitch)
    /\ FLt(camera.pitch, Fin(FRAC_PI_2))

\* C2 amended: once update_camera has run, the pitch, when it is a number, lies
\* in the closed interval [-pi/2, pi/2]; both bounds are attained, and before
\* the first update_camera the pitch is whatever CameraData::new was given.
C2_PitchInClosedInterval ==
    frames >= 1 /\ ~IsNaN(camera.pitch) =>
        /\ FLe(FNeg(Fin(FRAC_PI_2)), camera.pitch)
        /\ FLe(camera.pitch, Fin(FRAC_PI_2))

\* a camera built inside the bounds reaches +pi/2 itself in a later frame
C2_Witness ==
    /\ frames = 2 /\ last.op = "update_camera"
    /\ last.prev = "process_mouse"
    /\ camera.pitch = Fin(FRAC_PI_2)
    /\ camera.yaw = Fin(0)

(* -------------------------------------------------------------- claim C5 *)
C5_Zeroed ==
    /\ controller'.rotate_horizontal = Fin(0)
    /\ controller'.rotate_vertical = Fin(0)
    /\ controller'.scroll = Fin(0)

\* C5 as claimed: for every controller and camera state, update_camera with
\* dt = 0 leaves position, yaw and pitch unchanged and zeroes the rotation and
\* scroll accumulators.
C5_ZeroDtKeepsCamera ==
    [][Did("update_camera") /\ last'.args = <<0>> =>
         camera' = camera /\ C5_Zeroed]_vars

\* the controller's pending values and their products with speed and
\* sensitivity are finite, the camera is finite and its pitch within bounds
C5_InRange ==
    /\ AllFinite(controller, camera)
    /\ IsFin(FMul(controller.rotate_horizontal, controller.sensitivity))
    /\ IsFin(FMul(controller.rotate_vertical, controller.sensitivity))
    /\ IsFin(FMul(controller.scroll, controller.speed))
    /\ IsFin(FMul(FMul(controller.scroll, controller.speed), controller.sensitivity))
    /\ FLe(FNeg(Fin(FRAC_PI_2)), camera.pitch)
    /\ FLe(camera.pitch, Fin(FRAC_PI_2))

\* C5 amended: update_camera with dt = 0 always zeroes the rotation and scroll
\* accumulators; it leaves position, yaw and pitch unchanged when the pitch is
\* within [-pi/2, pi/2] and the camera, the pending deltas, speed, sensitivity
\* and their products are finite (a pitch outside the bounds is clamped, and
\* an infinite product times 0 is NaN).
C5_ZeroDtKeepsCameraInRange ==
    [][Did("update_camera") /\ last'.args = <<0>> =>
         /\ C5_Zeroed
         /\ (C5_InRange => camera' = camera)]_vars

\* dt = 0 right after a key press, a mouse delta and a scroll: camera untouched
\* (still as constructed at 90 degrees), accumulators zeroed, key still set
C5_Witness ==
    /\ frames = 1 /\ last.op = "update_camera" /\ last.args = <<0>>
    /\ camera = CameraDataNew(Origin, Fin(0), Fin(FRAC_PI_2))
    /\ controller.amount_forward = Fin(1)
    /\ NothingPending(controller)
    /\ last.prev = "process_mouse"

(* -------------------------------------------------------------- claim C3 *)
\* the accumulator the claim names for a key
C3_Accumulator(key) ==
    CASE key = "W" \/ key = "Up" -> "amount_forward"
      [] key = "S" \/ key = "Down" -> "amount_backward"
      [] key = "A" \/ key = "Left" -> "amount_left"
      [] key = "D" \/ key = "Right" -> "amount_right"
      [] key = "Space" -> "amount_up"
      [] key = "LShift" -> "amount_down"

\* C3: process_keyboard returns true exactly for the mapped keys (W/Up, S/Down,
\* A/Left, D/Right, Space, LShift); for a mapped key it sets the corresponding
\* accumulator alone to 1.0 on press and 0.0 on release; for any other key it
\* returns false and leaves the whole controller as it was.
C3_KeyboardHandled ==
    [][Did("process_keyboard") =>
         LET key == last'.args[1]
             state == last'.args[2]
         IN IF key \in {"W", "Up", "S", "Down", "A", "Left", "D", "Right",
                        "Space", "LShift"}
            THEN /\ last'.ret = "true"
                 /\ controller'[C3_Accumulator(key)] =
                      (IF state = "Pressed" THEN Fin(1) ELSE Fin(0))
                 /\ \A f \in DOMAIN controller \ {C3_Accumulator(key)} :
                      controller'[f] = controller[f]
            ELSE /\ last'.ret = "false"
                 /\ controller' = controller]_vars

\* an unmapped key pressed while forward is set and a mouse delta is pending:
\* not handled, nothing changed
C3_Witness ==
    /\ last.op = "process_keyboard" /\ last.args = <<"Escape", "Pressed">>
    /\ last.ret = "false"
    /\ controller.amount_forward = Fin(1)
    /\ controller.rotate_horizontal = Fin(1)
    /\ "Up" \in held

(* -------------------------------------------------------------- claim C4 *)
\* C4: process_scroll is last-write-wins: after a process_scroll call the scroll
\* accumulator is the negated normalized value of that call alone (line delta
\* y times 100, pixel delta y as is), whatever unconsumed scroll was pending
\* before it; scroll values are never summed.
C4_ScrollLastWriteWins ==
    [][Did("process_scroll") =>
         LET delta == last'.args[1]
             y == IF delta.kind = "LineDelta" /\ IsFin(delta.y)
                  THEN Round(delta.y.v * 100) ELSE AsF32(delta.y)
         IN controller'.scroll = FNeg(y)]_vars

\* two process_scroll calls in a row with no update_camera between them: the
\* accumulator holds one line (-100), not the sum of the two events
C4_Witness ==
    /\ last.op = "process_scroll" /\ last.prev = "process_scroll"
    /\ last.args = <<LineDelta(Fin(0), Fin(1))>>
    /\ controller.scroll = Fin(-100)

(* -------------------------------------------------------------- claim C8 *)
C8_Scenario ==
    /\ camera = CameraDataNew(Origin, DegToRad(-90), DegToRad(0))
    /\ controller.speed = Fin(4)
    /\ OnlyForward(controller) /\ NothingPending(controller)
    /\ Did("update_camera") /\ last'.args = <<1>>

\* C8 as claimed: in the scenario (origin, yaw -90 degrees, pitch 0, speed 4,
\* only forward pressed, dt = 1 s) the position moves by (0, 0, +4).
C8_MovesPlusZ ==
    [][C8_Scenario => camera'.position = Vec(Fin(0), Fin(0), Fin(4))]_vars

\* C8 amended: in the same scenario the position moves by (0, 0, -4): x and y
\* are unchanged and z changes by -4.
C8_MovesMinusZ ==
    [][C8_Scenario => camera'.position = Vec(Fin(0), Fin(0), Fin(-4))]_vars

C8_Witness ==
    /\ last.op = "update_camera" /\ last.args = <<1>> /\ frames = 1
    /\ last.prev = "process_keyboard"
    /\ camera = CameraDataNew(Vec(Fin(0), Fin(0), Fin(-4)), DegToRad(-90), Fin(0))
    /\ controller.speed = Fin(4) /\ OnlyForward(controller)

(* -------------------------------------------------------------- claim C9 *)
\* every update_camera call zeroes the two rotation deltas and the scroll and
\* leaves the rest of the controller; outside update_camera a mouse or scroll
\* value is changed by process_mouse / process_scroll alone, so it acts in at
\* most one update; the directional accumulators change in process_keyboard
\* alone
C9_Resets ==
    /\ (Did("update_camera") =>
         /\ controller'.rotate_horizontal = Fin(0)
         /\ controller'.rotate_vertical = Fin(0)
         /\ controller'.scroll = Fin(0)
         /\ Amounts(controller') = Amounts(controller)
         /\ controller'.speed = controller.speed
         /\ controller'.sensitivity = controller.sensitivity)
    /\ (~Did("update_camera") /\ ~Did("process_mouse") =>
         /\ controller'.rotate_horizontal = controller.rotate_horizontal
         /\ controller'.rotate_vertical = controller.rotate_vertical)
    /\ (~Did("update_camera") /\ ~Did("process_scroll") =>
         controller'.scroll = controller.scroll)
    /\ (~Did("process_keyboard") => Amounts(controller') = Amounts(controller))
    /\ (/\ Did("update_camera")
        /\ controller.rotate_horizontal = Fin(0)
        /\ IsFin(controller.sensitivity) /\ IsFin(camera.yaw)
        => camera'.yaw = camera.yaw)

\* an update_camera step of dt > 0 in which nothing but keys can move the camera
C9_KeyFrame ==
    /\ Did("update_camera") /\ last'.args[1] >= 1
    /\ AllFinite(controller, camera)
    /\ controller.speed # Fin(0) /\ controller.scroll = Fin(0)

\* C9 as claimed: rotation and scroll are consumed by one update_camera, and a
\* pressed key contributes motion to every update_camera until a release event
\* for it arrives (one mapped key is down, no release of it has arrived: the
\* update moves the camera).
C9_HeldKeyMovesEveryFrame ==
    [][/\ C9_Resets
       /\ (C9_KeyFrame /\ (\E key \in MappedKeys : held = {key})
            => camera'.position # camera.position)]_vars

\* C9 amended: rotation and scroll are consumed by one update_camera; a
\* directional accumulator set by a press stays set over every call but
\* process_keyboard, and moves the camera in every update_camera, until the
\* next release event of a key mapped to that accumulator arrives: of the
\* pressed key or of its alias (W/Up, S/Down, A/Left, D/Right).
C9_SetAccumulatorMovesEveryFrame ==
    [][/\ C9_Resets
       /\ (Did("process_keyboard") /\ KeyField(last'.args[1]) # "none" =>
            controller' = [controller EXCEPT ![KeyField(last'.args[1])] =
                             IF last'.args[2] = "Pressed" THEN Fin(1) ELSE Fin(0)])
       /\ (/\ C9_KeyFrame
           /\ \/ controller.amount_forward # controller.amount_backward
              \/ controller.amount_right # controller.amount_left
              \/ controller.amount_up # controller.amount_down
           => camera'.position # camera.position)]_vars

\* second frame in a row with Space still held and no new mouse event: the one
\* mouse event before the first frame turned the camera once (yaw 0 -> 1), the
\* key moved it in both frames (y = 4 + 4)
C9_Witness ==
    /\ frames = 2 /\ last.op = "update_camera" /\ last.prev = "update_camera"
    /\ last.args = <<1>>
    /\ held = {"Space"}
    /\ controller.amount_up = Fin(1) /\ controller.speed = Fin(4)
    /\ camera.position = Vec(Fin(0), Fin(8), Fin(0))
    /\ camera.yaw = Fin(1)

(* ------------------------------------------------------------- claim C10 *)
\* the position reached from camera `cam` by the translations of one frame when
\* their directions are taken at the angles `yaw` and `pitch` (finite values)
MovedFrom(c, cam, yaw, pitch, dt) ==
    LET fb == (c.amount_forward.v - c.amount_backward.v) * c.speed.v * dt
        rl == (c.amount_right.v - c.amount_left.v) * c.speed.v * dt
        ud == (c.amount_up.v - c.amount_down.v) * c.speed.v * dt
        sc == c.scroll.v * c.speed.v * c.sensitivity.v * dt
    IN Vec(Round(cam.position.x.v + CosQ(yaw) * fb - SinQ(yaw) * rl
                   + CosQ(pitch) * CosQ(yaw) * sc),
           Round(cam.position.y.v + SinQ(pitch) * sc + ud),
           Round(cam.position.z.v + SinQ(yaw) * fb + CosQ(yaw) * rl
                   + CosQ(pitch) * SinQ(yaw) * sc))

\* C10: within one update_camera call every translation is computed from the
\* yaw and pitch the camera had before the call; the pending rotation deltas
\* change yaw and pitch only afterwards (one-frame rotational lag).
C10_TranslateBeforeRotate ==
    [][Did("update_camera") /\ AllFinite(controller, camera) =>
         /\ camera'.position =
              MovedFrom(controller, camera, camera.yaw.v, camera.pitch.v,
                        last'.args[1])
         /\ camera'.yaw = Round(camera.yaw.v + controller.rotate_horizontal.v
                                  * controller.sensitivity.v * last'.args[1])]_vars

\* forward held over two frames, one mouse event before the first: the first
\* frame still moves along the old direction (+x at yaw 0), the second along
\* the new one (+z at yaw 1)
C10_Witness ==
    /\ frames = 2 /\ last.op = "update_camera" /\ last.prev = "update_camera"
    /\ OnlyForward(controller)
    /\ camera.position = Vec(Fin(4), Fin(0), Fin(4))
    /\ camera.yaw = Fin(1)

(* -------------------------------------------------------------- claim C6 *)
CallsOf(f) == {i \in DOMAIN calls : calls[i].f = f}

\* C6: when get_current_texture fails, render returns that error, has asked
\* for the image once and not again, and has created no command encoder,
\* submitted nothing and presented nothing.
C6_AcquireErrorPropagated ==
    last.op = "render" /\ Len(calls) >= 1
                       /\ calls[1].f = "surface.get_current_texture"
                       /\ calls[1].r \in SurfaceErrors =>
        /\ last.ret = calls[1].r
        /\ Cardinality(CallsOf("surface.get_current_texture")) = 1
        /\ CallsOf("create_command_encoder") = {}
        /\ CallsOf("queue.submit") = {}
        /\ CallsOf("output.present") = {}
        /\ Len(calls) = 1

\* a render that met a lost surface, right after a render
C6_Witness ==
    /\ last.op = "render" /\ last.ret = "Lost" /\ last.prev = "render"
    /\ calls = <<Gpu("surface.get_current_texture", "Lost")>>

(* -------------------------------------------------------------- claim C7 *)
C7_Requested == last.args[1]

\* C7 as claimed: after every resize call with any new size, zero sides
\* included, the projection aspect is surface_config.width /
\* surface_config.height and the depth buffer has the surface_config size.
C7_ResizeInSync ==
    last.op = "resize" =>
        /\ projection.aspect = Aspect(surface_config.width, surface_config.height)
        /\ depth_texture.width = surface_config.width
        /\ depth_texture.height = surface_config.height

\* C7 amended: after every resize call the depth buffer has the surface_config
\* size; after a resize whose width and height are both nonzero the
\* surface_config has the new size and the projection aspect is
\* surface_config.width / surface_config.height.  (A resize with a zero side
\* leaves the surface_config and sets the aspect from the zero-sided size.)
C7_ResizeInSyncNonzero ==
    last.op = "resize" =>
        /\ depth_texture.width = surface_config.width
        /\ depth_texture.height = surface_config.height
        /\ (C7_Requested.width > 0 /\ C7_Requested.height > 0 =>
              /\ surface_config.width = C7_Requested.width
              /\ surface_config.height = C7_Requested.height
              /\ projection.aspect.n * surface_config.height
                   = projection.aspect.d * surface_config.width
              /\ projection.aspect.d > 0)

\* a resize to 3 x 2 after another resize
C7_Witness ==
    /\ last.op = "resize" /\ last.prev = "resize"
    /\ last.args = <<PhysicalSize(3, 2)>>
    /\ surface_config = [width |-> 3, height |-> 2]
    /\ depth_texture = [width |-> 3, height |-> 2]
    /\ projection.aspect = [n |-> 3, d |-> 2]

(* ------------------------------------------------------------- claim C11 *)
C11_Nonzero(size) == size.width > 0 /\ size.height > 0

\* the state part: the surface configuration never has a zero side and has
\* the size of window_size, which is what get_size returns
C11_Configured ==
    /\ C11_Nonzero(surface_config)
    /\ PhysicalSize(surface_config.width, surface_config.height) = window_size
    /\ (last.op = "get_size" => last.ret = window_size)

\* the step part: a resize to a size with both sides nonzero makes that size
\* the window_size and the surface_config size and configures the surface
\* once; a resize with a zero side leaves both and does not configure; every
\* resize creates the depth texture, last, from the surface_config it leaves;
\* no other step changes window_size or surface_config
C11_ResizeStep ==
    /\ Did("resize") =>
          LET new_size == last'.args[1] IN
          /\ IF C11_Nonzero(new_size)
             THEN /\ window_size' = new_size
                  /\ surface_config'.width = new_size.width
                  /\ surface_config'.height = new_size.height
                  /\ calls' = <<Gpu("surface.configure", "unit"),
                                Gpu("create_depth_texture", "unit")>>
             ELSE /\ UNCHANGED <<window_size, surface_config>>
                  /\ calls' = <<Gpu("create_depth_texture", "unit")>>
          /\ depth_texture' = CreateDepthTexture(surface_config')
    /\ ~Did("resize") => UNCHANGED <<window_size, surface_config>>

\* C11: from a nonzero initial size, after any sequence of resize calls the
\* surface_config width and height are above zero and, like the size get_size
\* returns, are those of the most recent requested size with both sides
\* nonzero; a resize with a zero side leaves window_size and surface_config
\* and does not call surface.configure; every resize recreates the depth
\* buffer from the current surface_config.
C11_NeverZeroConfigured == [](C11_Configured) /\ [][C11_ResizeStep]_vars

\* get_size after a resize to 0 x 2 that followed a resize to 3 x 2: it
\* returns 3 x 2, the size the surface is configured with
C11_Witness ==
    /\ last.op = "get_size" /\ last.prev = "resize"
    /\ last.ret = PhysicalSize(3, 2)
    /\ surface_config = [width |-> 3, height |-> 2]
    /\ depth_texture = [width |-> 3, height |-> 2]
    /\ projection.aspect = [n |-> 0, d |-> 1]

(* ------------------------------------------------------------- claim C12 *)
\* the one position of call f in the calls of the last handler
C12_At(f) == CHOOSE i \in CallsOf(f) : TRUE

C12_Steps ==
    <<"surface.get_current_texture", "create_command_encoder",
      "camera.update_buffers", "light.update_buffers", "begin_render_pass",
      "draw_indexed", "end_render_pass", "encoder.finish", "queue.submit",
      "output.present">>

\* C12: in every render that acquires an image the steps happen once each
\* and in this order: acquire the image, record the camera and light uniform
\* updates into the frame's encoder, begin the render pass (clear colour,
\* depth 1.0) and record the draws into the same encoder, submit that one
\* encoder in the only queue submission, present last; present never comes
\* before submit and the uniform updates are not a submission of their own.
C12_RenderOrder ==
    last.op = "render" /\ last.ret = "Ok" =>
        /\ \A k \in DOMAIN C12_Steps :
              Cardinality(CallsOf(C12_Steps[k])) = NumModels ^ (IF k = 6 THEN 1 ELSE 0)
        /\ \A k \in 1..(Len(C12_Steps) - 1) :
              \A i \in CallsOf(C12_Steps[k]), j \in CallsOf(C12_Steps[k + 1]) : i < j
        /\ calls[1] = Gpu("surface.get_current_texture", "Ok")
        /\ calls[C12_At("create_command_encoder")].r = RenderEncoder
        /\ \A f \in {"camera.update_buffers", "light.update_buffers",
                      "begin_render_pass", "encoder.finish", "queue.submit"} :
              calls[C12_At(f)].on = RenderEncoder
        /\ calls[C12_At("begin_render_pass")].r.color.load = "Clear"
        /\ calls[C12_At("begin_render_pass")].r.depth = [load |-> "Clear", value |-> Fin(1)]
        /\ calls[Len(calls)].f = "output.present"

\* a render that acquired an image, right after a resize: seventeen calls,
\* the first the acquisition, the last two the submission and the present
C12_Witness ==
    /\ last.op = "render" /\ last.ret = "Ok" /\ last.prev = "resize"
    /\ Len(calls) = 13 + 4 * NumModels
    /\ calls[Len(calls) - 1] = GpuOn("queue.submit", RenderEncoder, "unit")
    /\ calls[Len(calls)] = Gpu("output.present", "unit")

(* ------------------------------------------------------------- claim C13 *)
\* the position at which the field is released when the Engine is dropped
C13_ReleasedAt(field) ==
    CHOOSE i \in DOMAIN calls : calls[i].f = "drop" /\ calls[i].on = field

\* the position at which Engine::new acquired the field
C13_AcquiredAt(field) == CHOOSE i \in DOMAIN Acquisition : Acquisition[i] = field

C13_Resources == {"depth_texture", "render_pipeline", "device", "surface", "instance"}

\* C13 as claimed: when the Engine is torn down its GPU resources are released
\* in reverse-acquisition order: the depth buffer first, then the render
\* pipeline, then the device, then the surface, and the instance last.
C13_ReleasedInReverse ==
    last.op = "drop" =>
        /\ \A a, b \in C13_Resources :
              C13_AcquiredAt(a) < C13_AcquiredAt(b) =>
                  C13_ReleasedAt(b) < C13_ReleasedAt(a)
        /\ C13_ReleasedAt("depth_texture") < C13_ReleasedAt("render_pipeline")
        /\ C13_ReleasedAt("render_pipeline") < C13_ReleasedAt("device")
        /\ C13_ReleasedAt("device") < C13_ReleasedAt("surface")
        /\ C13_ReleasedAt("surface") < C13_ReleasedAt("instance")

(* ------------------------------------------------------------- claim C14 *)
\* the four accumulators with two alias keys each
C14_Aliases ==
    [amount_forward |-> {"W", "Up"}, amount_backward |-> {"S", "Down"},
     amount_left |-> {"A", "Left"}, amount_right |-> {"D", "Right"}]

\* the state part: an accumulator is 1.0 or 0.0; right after an event on one of
\* its alias keys it is 1.0 exactly when that event was a press, whether or
\* not the other alias is held; it is 1.0 only while an alias is held and
\* always when both are (keys are released only when held)
C14_LastEvent ==
    \A acc \in DOMAIN C14_Aliases :
        /\ controller[acc] \in {Fin(0), Fin(1)}
        /\ (last.op = "process_keyboard" /\ last.args[1] \in C14_Aliases[acc] =>
              (controller[acc] = Fin(1) <=> last.args[2] = "Pressed"))
        /\ (controller[acc] = Fin(1) => C14_Aliases[acc] \cap held # {})
        /\ (C14_Aliases[acc] \subseteq held => controller[acc] = Fin(1))

\* the step part: only an event on one of its alias keys changes an
\* accumulator, so its value is that of the most recent such event; and an
\* update with every accumulator and the scroll at zero leaves the position,
\* whatever keys are held
C14_Step ==
    /\ \A acc \in DOMAIN C14_Aliases :
          ~(Did("process_keyboard") /\ last'.args[1] \in C14_Aliases[acc]) =>
              controller'[acc] = controller[acc]
    /\ (Did("update_camera") /\ Amounts(controller) = <<Fin(0), Fin(0), Fin(0), Fin(0), Fin(0), Fin(0)>>
                             /\ controller.scroll = Fin(0) =>
          camera'.position = camera.position)

\* C14: each directional accumulator records only the last event on any key
\* mapped to its direction, not whether some mapped key is still held: the
\* forward (backward, left, right) accumulator is 1.0 exactly when the most
\* recent event among its two alias keys was a press, so releasing one alias
\* while the other is still held sets it to 0.0 and stops that motion.
C14_AliasLastEventWins == [](C14_LastEvent) /\ [][C14_Step]_vars

\* Left is held, its alias A was the last of the two to be released, then a
\* frame of one second ran: the left accumulator is 0.0 and the camera has
\* not moved
C14_Witness ==
    /\ last.op = "update_camera" /\ last.prev = "process_keyboard"
    /\ held = {"Left"}
    /\ controller.amount_left = Fin(0)
    /\ camera.position = Origin

====
